---- MODULE Spec2Model ----
(***************************************************************************)
(* One request-scoped run of the Reddit media-resolution pipeline:         *)
(* get_media -> match_reddit -> fetch_reddit_json_data -> process_*_post.  *)
(* Every action is the piece of code that runs between two awaits: it      *)
(* consumes the answer of the awaited network operation (chosen with \E)   *)
(* and runs up to the next await or to the return of get_media.            *)
(* pc names the operation the run is waiting for.                          *)
(*                                                                         *)
(* Spec is that run.  CallSpec applies download_file, get_file_size_mb and *)
(* extract_audio_link on their own to inputs drawn from bounded sets.      *)
(* RunsSpec puts two runs for the same post side by side, reduced to what  *)
(* they do to the file system.                                             *)
(* SeqSpec lets requests follow one another on one links_table, each run   *)
(* reduced after the cache lookup to what match_reddit returns.            *)
(***************************************************************************)
EXTENDS Integers, Sequences, FiniteSets, TLC

VARIABLES
    pc,             \* position of the run (the awaited operation, or a final state)
    url,            \* link_request.url as the two regular expressions see it
    cache,          \* links_table: the endpoints an external party stored
    json_url,       \* match_reddit: <<>> or <<endpoint>>
    ops,            \* how many operations of each kind the run has started
    post,           \* the fetched post document (fields the code branches on)
    variant,        \* the extractor fetch_reddit_json_data dispatched to
    failure,        \* the error branch the run took ("none" while it took none)
    raised,         \* the function an unhandled exception escaped from
    result,         \* what the extractor returned
    payload,        \* what get_media returned
    tiers,          \* redgifs: content_urls as read by process_redgifs_post
    selected_video, \* redgifs: <<>> or <<the chosen option>>
    reps,           \* DASH: the video Representations in document order
    audio_link,     \* DASH: <<>> or <<relative path of the chosen audio>>
    probes,         \* DASH: one slot per probe task, in task order
    probeOrder,     \* DASH: task numbers in the order the probes completed
    best_video,     \* DASH: <<>> or <<the chosen video_links entry>>
    dl,             \* DASH: state of the video and audio downloads
    items,          \* gallery: the media items in gallery_data order
    gslots,         \* gallery: one slot per download_media task
    gorder,         \* gallery: item numbers in the order the tasks completed
    image,          \* image: <<>> or <<the download the extractor planned>>
    call,           \* a function called on its own: name, inputs, outcome
    job,            \* concurrent runs: the post the requests are for
    fs,             \* concurrent runs: the directories that exist in MEDIA_DIR
    runs,           \* concurrent runs: temp_dir and download tasks of each run
    log             \* successive runs: what each finished run did

netVars     == <<url, cache, json_url>>
redgifsVars == <<tiers, selected_video>>
dashVars    == <<reps, audio_link, probes, probeOrder, best_video, dl>>
galleryVars == <<items, gslots, gorder>>
extrVars    == <<tiers, selected_video, reps, audio_link, probes, probeOrder,
                 best_video, dl, items, gslots, gorder, image>>
vars == <<pc, url, cache, json_url, ops, post, variant, failure, raised, result,
          payload, tiers, selected_video, reps, audio_link, probes, probeOrder,
          best_video, dl, items, gslots, gorder, image, call, job, fs, runs, log>>
\* The variables of the function calls, of the concurrent runs and of the
\* successive runs.
sideVars == <<call, job, fs, runs, log>>

(***************************************************************************)
(* Program constants and the bounds of the model.                          *)
(***************************************************************************)
MAX_VIDEO_SIZE_MB == 45
MB == 1048576

MaxReps  == 2      \* video Representations in a manifest
MaxItems == 2      \* items in a gallery

\* Byte sizes the redgifs metadata may report: 4 MB, 10 MB, exactly the cap
\* and 50 MB.  Content-Length values a probe may report: one byte over the cap
\* (which rounds to 45.0 MB) and 50 MB; a response without the header counts
\* as 0 bytes.
TierSizes  == {4 * MB, 10 * MB, 45 * MB, 50 * MB}
ProbeSizes == {45 * MB + 1, 50 * MB}
Widths     == {360, 720}
\* The endpoint the request resolves to, and the endpoint of another post,
\* which the cache holds in every run.
Requested  == "r/test/comments/xyz"
OtherPost  == "r/pics/comments/abc"
Endpoints  == {Requested, OtherPost}
Domains    == {"redgifs.com", "www.redgifs.com", "i.redd.it"}
Hints      == {"image", "link"}

\* The sequences over S of length at most n.
SeqsUpTo(S, n) == UNION {[1..k -> S] : k \in 0..n}

(***************************************************************************)
(* Results and payloads.  An extractor returns a dict; {} and None are the *)
(* empty results.                                                          *)
(***************************************************************************)
EmptyResult ==
    [type |-> "empty", file_paths |-> <<>>, file_type |-> "", temp_dir |-> FALSE]
DeletedResult ==
    [type |-> "status_error", file_paths |-> <<>>, file_type |-> "", temp_dir |-> FALSE]
OtherResult ==
    [type |-> "other", file_paths |-> <<>>, file_type |-> "", temp_dir |-> FALSE]
MediaResult(type, paths, ftype) ==
    [type |-> type, file_paths |-> paths, file_type |-> ftype, temp_dir |-> TRUE]

NoPayload == [status |-> "none", message |-> "none", data |-> EmptyResult]

\* A file inside the run's temporary directory: name, index, extension.
Path(name, idx, ext) == <<name, idx, ext>>

\* The row LinksDAO.find_one_or_none returns: an ORM object, not a dict.
StoredRecord ==
    [type |-> "links_row", file_paths |-> <<>>, file_type |-> "", temp_dir |-> FALSE]

\* Whether the object has the dict method get_media calls on it.
HasGet(res) == res.type # "links_row"

\* Faulty variant of Truthy, for sensitivity checks: a result without files counts as empty.
TruthyWithFiles(res) == res.type # "empty" /\ res.file_paths # <<>>

\* Python truth value of what an extractor returned ("if not post_parsed_data",
\* "if data"): a dict is false exactly when it has no key.
Truthy(res) == res.type # "empty"

\* Faulty variant of GetMedia, for sensitivity checks: no test of the result for emptiness.
GetMediaUnchecked(res) ==
    IF res.type = "status_error"
    THEN [status |-> "error", message |-> "deleted", data |-> EmptyResult]
    ELSE [status |-> "success", message |-> "none", data |-> res]

\* Faulty variant of GetMedia, for sensitivity checks: every error gets the
\* generic message.
GetMediaGenericError(res) ==
    IF ~Truthy(res) \/ res.type = "status_error"
    THEN [status |-> "error", message |-> "generic", data |-> EmptyResult]
    ELSE [status |-> "success", message |-> "none", data |-> res]

\* match_reddit after fetch_reddit_json_data returned, then get_media.
GetMedia(res) ==
    IF ~Truthy(res)
    THEN [status |-> "error", message |-> "generic", data |-> EmptyResult]
    ELSE IF res.type = "status_error"
         THEN [status |-> "error", message |-> "deleted", data |-> EmptyResult]
         ELSE [status |-> "success", message |-> "none", data |-> res]

OpNames == {"head", "get", "cacheLookup", "postFetch", "classify", "metaFetch",
            "manifestFetch", "probe", "download", "mux", "mkdtemp",
            "process_redgifs_post", "process_gallery_post", "process_video_post",
            "process_image_post", "process_other_post"}
Bump(o, f) == [o EXCEPT ![f] = @ + 1]
BumpBy(o, f, n) == [o EXCEPT ![f] = @ + n]

\* What the post holds along one of the two paths find_dash_url walks: how
\* many of the path's keys resolve, from the first one on, and the value the
\* last key leads to when all resolve (a URL, or an empty one).
NoPath == [depth |-> 0, value |-> "empty"]

NoPost == [raw |-> "none", domain |-> "i.redd.it", is_gallery |-> FALSE,
           is_video |-> FALSE, post_hint |-> "link",
           dash_direct |-> NoPath, dash_cross |-> NoPath, dash_url |-> <<>>]

NoDownloads == [video |-> "none", audio |-> "none"]

\* No function is called on its own in a pipeline run.
NoCall == [fn |-> "none", in |-> <<>>, out |-> <<>>]

\* Two requests handled at the same time; a pipeline run on its own has no
\* job and no second run.
Runs == {"first", "second"}
NoJob == [kind |-> "none", items |-> <<>>, audio |-> FALSE]
NoRun == [stage |-> "idle", temp_dir |-> "none", tasks |-> <<>>]

Init ==
    /\ pc = "start"
    /\ url \in [short : BOOLEAN, std : BOOLEAN, ep : {Requested}]
    /\ cache \in {c \in SUBSET Endpoints : OtherPost \in c}
    /\ json_url = <<>>
    /\ ops = [o \in OpNames |-> 0]
    /\ post = NoPost
    /\ variant = "none"
    /\ failure = "none"
    /\ raised = "none"
    /\ result = EmptyResult
    /\ payload = NoPayload
    /\ tiers = <<>>
    /\ selected_video = <<>>
    /\ reps = <<>>
    /\ audio_link = <<>>
    /\ probes = <<>>
    /\ probeOrder = <<>>
    /\ best_video = <<>>
    /\ dl = NoDownloads
    /\ items = <<>>
    /\ gslots = <<>>
    /\ gorder = <<>>
    /\ image = <<>>
    /\ call = NoCall
    /\ job = NoJob
    /\ fs = {}
    /\ runs = [r \in Runs |-> NoRun]
    /\ log = <<>>

(***************************************************************************)
(* Ways a run ends.                                                        *)
(***************************************************************************)
\* match_reddit returned res to get_media, which builds the payload; on a
\* LinksTable row "data.get" is an AttributeError nothing catches.
Return(res) ==
    /\ result' = res
    /\ IF HasGet(res)
       THEN /\ payload' = GetMedia(res)
            /\ pc' = IF GetMedia(res).status = "success" THEN "done" ELSE "failed"
            /\ raised' = raised
       ELSE /\ payload' = payload
            /\ pc' = "raised"
            /\ raised' = "get_media"

\* An error branch: the empty result, by the branch named cause.
Fail(cause) ==
    /\ failure' = cause
    /\ Return(EmptyResult)

\* An exception no handler catches leaves function fn and get_media.
Raise(fn) ==
    /\ raised' = fn
    /\ pc' = "raised"
    /\ UNCHANGED <<result, payload>>

(***************************************************************************)
(* match_reddit: URL resolution, cache lookup, post fetch.                 *)
(* url.short: the reference matches short_url_pattern.  url.std and url.ep *)
(* describe the URL standard_url_pattern is applied to (the reference      *)
(* itself, or the URL a short link redirects to): whether it matches and   *)
(* the endpoint built from the groups it captures.                         *)
(***************************************************************************)
\* re.search(standard_url_pattern, u) and the json_url built from the match.
MatchStandard(u) == IF u.std THEN <<u.ep>> ELSE <<>>

\* Lines 742-776 up to the cache lookup; o is the operation count so far.
AfterResolve(o) ==
    IF MatchStandard(url) # <<>>
    THEN /\ json_url' = MatchStandard(url)
         /\ ops' = Bump(o, "cacheLookup")
         /\ pc' = "awaitCache"
         /\ UNCHANGED <<failure, raised, result, payload>>
    ELSE /\ json_url' = <<>>
         /\ ops' = o
         /\ Fail("InvalidURL")

\* Faulty variant of Start, for sensitivity checks: fetch_final_url starts
\* with the GET.
StartWithGet ==
    /\ pc = "start"
    /\ IF url.short
       THEN /\ ops' = Bump(ops, "get")
            /\ pc' = "awaitGet"
            /\ UNCHANGED <<json_url, failure, raised, result, payload>>
       ELSE AfterResolve(ops)
    /\ UNCHANGED <<url, cache, post, variant, extrVars>>
    /\ UNCHANGED sideVars

\* get_media is called: a short link starts the HEAD of fetch_final_url.
Start ==
    /\ pc = "start"
    /\ IF url.short
       THEN /\ ops' = Bump(ops, "head")
            /\ pc' = "awaitHead"
            /\ UNCHANGED <<json_url, failure, raised, result, payload>>
       ELSE AfterResolve(ops)
    /\ UNCHANGED <<url, cache, post, variant, extrVars>>
    /\ UNCHANGED sideVars

\* fetch_final_url: the redirect-following HEAD answered.
HeadDone ==
    /\ pc = "awaitHead"
    /\ \E ok \in BOOLEAN :
         IF ok
         THEN AfterResolve(ops)
         ELSE /\ ops' = Bump(ops, "get")
              /\ pc' = "awaitGet"
              /\ UNCHANGED <<json_url, failure, raised, result, payload>>
    /\ UNCHANGED <<url, cache, post, variant, extrVars>>
    /\ UNCHANGED sideVars

\* fetch_final_url: the fallback GET answered.  When it failed too the
\* function returns None and re.search(pattern, None) is a TypeError.
GetDone ==
    /\ pc = "awaitGet"
    /\ \E ok \in BOOLEAN :
         IF ok
         THEN AfterResolve(ops)
         ELSE /\ Raise("match_reddit")
              /\ UNCHANGED <<json_url, ops, failure>>
    /\ UNCHANGED <<url, cache, post, variant, extrVars>>
    /\ UNCHANGED sideVars

\* LinksDAO.find_one_or_none(url=json_url) answered.
CacheDone ==
    /\ pc = "awaitCache"
    /\ IF json_url[1] \in cache
       THEN /\ Return(StoredRecord)
            /\ UNCHANGED <<ops, failure>>
       ELSE /\ ops' = Bump(ops, "postFetch")
            /\ pc' = "awaitPost"
            /\ UNCHANGED <<failure, raised, result, payload>>
    /\ UNCHANGED <<url, cache, json_url, post, variant, extrVars>>
    /\ UNCHANGED sideVars

(***************************************************************************)
(* fetch_reddit_json_data: structure check, deleted check, find_dash_url,  *)
(* validation and the dispatch chain.                                      *)
(***************************************************************************)
\* The two paths of find_dash_url.
DirectKeys == <<"secure_media", "reddit_video", "dash_url">>
CrossKeys  == <<"crosspost_parent_list", "0", "secure_media", "reddit_video", "dash_url">>

\* A path whose keys all resolve to a URL, and the ways a path gives none:
\* a key that does not resolve at some step, or an empty value at the end.
FullPath(keys) == [depth |-> Len(keys), value |-> "url"]
AbsentPaths(keys) ==
    [depth : 0..(Len(keys) - 1), value : {"empty"}]
        \cup {[depth |-> Len(keys), value |-> "empty"]}

\* The video metadata paths are drawn for video posts only: every pair in
\* which both paths give nothing, and the pairs with a URL on one path or on
\* both, the other path broken at its second key or ending in an empty value.
ValidPosts ==
    [raw : {"valid"}, domain : Domains, is_gallery : BOOLEAN, is_video : {TRUE},
     post_hint : Hints,
     dash_direct : {FullPath(DirectKeys), [depth |-> 1, value |-> "empty"],
                    [depth |-> Len(DirectKeys), value |-> "empty"]},
     dash_cross : {FullPath(CrossKeys), NoPath},
     dash_url : {<<>>}]
  \cup
    [raw : {"valid"}, domain : {"i.redd.it"}, is_gallery : {FALSE}, is_video : {TRUE},
     post_hint : Hints, dash_direct : AbsentPaths(DirectKeys),
     dash_cross : AbsentPaths(CrossKeys), dash_url : {<<>>}]
  \cup
    [raw : {"valid"}, domain : Domains, is_gallery : BOOLEAN, is_video : {FALSE},
     post_hint : Hints, dash_direct : {[depth |-> 1, value |-> "empty"]},
     dash_cross : {NoPath}, dash_url : {<<>>}]
\* The posts rejected before the dispatch chain; a deleted post may be a
\* video post that still holds its manifest URL.
BadPosts ==
    {[NoPost EXCEPT !.raw = r] : r \in {"badStructure", "deleted", "invalid"}}
        \cup {[NoPost EXCEPT !.raw = "deleted", !.is_video = TRUE,
                              !.dash_direct = FullPath(DirectKeys)]}
Posts == ValidPosts \cup BadPosts

\* The inner loop of find_dash_url over one path, from its k-th key: a key
\* that does not resolve (not in the dict, beyond the list, or applied to what
\* is neither) gives None and ends the loop; "if dash_url" then takes a
\* non-empty value only.
RECURSIVE WalkFrom(_, _, _)
WalkFrom(keys, path, k) ==
    IF k > Len(keys) THEN (IF path.value = "url" THEN <<"url">> ELSE <<>>)
    ELSE IF k <= path.depth THEN WalkFrom(keys, path, k + 1)
    ELSE <<>>

\* Faulty variant of find_dash_url, for sensitivity checks: the cross-post
\* path is walked first.
find_dash_url_cross_first(p) ==
    IF WalkFrom(CrossKeys, p.dash_cross, 1) # <<>> THEN <<"crosspost">>
    ELSE IF WalkFrom(DirectKeys, p.dash_direct, 1) # <<>> THEN <<"direct">>
    ELSE <<>>

\* find_dash_url: the value of the first of the two paths that yields one,
\* named by the path it came from; <<>> is None.
find_dash_url(p) ==
    IF WalkFrom(DirectKeys, p.dash_direct, 1) # <<>> THEN <<"direct">>
    ELSE IF WalkFrom(CrossKeys, p.dash_cross, 1) # <<>> THEN <<"crosspost">>
    ELSE <<>>

\* post_data_dict['dash_url'] = dash_url, when one was found.
WithDashUrl(p) == [p EXCEPT !.dash_url = find_dash_url(p)]

\* Faulty variant of Classify, for sensitivity checks: the video test before the gallery test.
ClassifyVideoFirst(p) ==
    IF p.domain \in {"redgifs.com", "www.redgifs.com"} THEN "Redgifs"
    ELSE IF p.is_video THEN "Video"
    ELSE IF p.is_gallery THEN "Gallery"
    ELSE IF p.post_hint = "image" THEN "Image"
    ELSE "Other"

\* The if/elif chain of fetch_reddit_json_data.
Classify(p) ==
    IF p.domain \in {"redgifs.com", "www.redgifs.com"} THEN "Redgifs"
    ELSE IF p.is_gallery THEN "Gallery"
    ELSE IF p.is_video THEN "Video"
    ELSE IF p.post_hint = "image" THEN "Image"
    ELSE "Other"

\* fetch_reddit_data answered; on success fetch_reddit_json_data runs up to
\* the call of the extractor.
PostFetchDone ==
    /\ pc = "awaitPost"
    /\ \E ok \in BOOLEAN :
         IF ~ok
         THEN /\ Fail("FetchFailure")
              /\ UNCHANGED <<post, variant, ops>>
         ELSE \E p \in Posts :
              /\ post' = IF p.raw \in {"valid", "invalid"} THEN WithDashUrl(p) ELSE p
              /\ ops' = Bump(ops, "classify")
              /\ CASE p.raw = "badStructure" ->
                        /\ Fail("InvalidStructure")
                        /\ variant' = variant
                   [] p.raw = "deleted" ->
                        /\ failure' = "Deleted"
                        /\ Return(DeletedResult)
                        /\ variant' = variant
                   [] p.raw = "invalid" ->
                        /\ Fail("ValidationError")
                        /\ variant' = variant
                   [] OTHER ->
                        /\ variant' = Classify(p)
                        /\ pc' = "dispatch"
                        /\ UNCHANGED <<failure, raised, result, payload>>
    /\ UNCHANGED <<netVars, extrVars>>
    /\ UNCHANGED sideVars

\* process_other_post: the post fields are the result.
OtherRun ==
    /\ pc = "dispatch"
    /\ variant = "Other"
    /\ ops' = Bump(ops, "process_other_post")
    /\ Return(OtherResult)
    /\ UNCHANGED <<netVars, post, variant, failure, extrVars>>
    /\ UNCHANGED sideVars

(***************************************************************************)
(* process_redgifs_post.  tiers[i] is the byte size of tier TierOrder[i],  *)
(* or Absent when content_urls has no usable entry under that key.         *)
(***************************************************************************)
TierOrder == <<"mp4", "mobile", "max5mbGif", "max2mbGif">>
Absent == -1
TierMaps == [1..Len(TierOrder) -> TierSizes \cup {Absent}]

\* size_mb = size / (1024 * 1024); size_mb <= MAX_VIDEO_SIZE_MB.  The division
\* by a power of two is exact, so the test is the one on the byte count.
RedgifsWithinLimit(size_bytes) == size_bytes <= MAX_VIDEO_SIZE_MB * MB

\* The loop over the four keys: video_options in iteration order.
RECURSIVE VideoOptionsFrom(_, _)
VideoOptionsFrom(t, i) ==
    IF i > Len(TierOrder) THEN <<>>
    ELSE (IF t[i] # Absent /\ RedgifsWithinLimit(t[i])
          THEN <<[key |-> TierOrder[i], size_bytes |-> t[i]]>>
          ELSE <<>>) \o VideoOptionsFrom(t, i + 1)
VideoOptions(t) == VideoOptionsFrom(t, 1)

\* Python's max(iterable, key): a later element replaces the best one only
\* when its key is strictly greater.
RECURSIVE MaxFrom(_, _, _)
MaxFrom(opts, i, best) ==
    IF i > Len(opts) THEN best
    ELSE MaxFrom(opts, i + 1,
                 IF opts[i].size_bytes > best.size_bytes THEN opts[i] ELSE best)

\* Faulty variant of MaxBySize, for sensitivity checks: the last of the largest options.
RECURSIVE MaxLastFrom(_, _, _)
MaxLastFrom(opts, i, best) ==
    IF i > Len(opts) THEN best
    ELSE MaxLastFrom(opts, i + 1,
                     IF opts[i].size_bytes >= best.size_bytes THEN opts[i] ELSE best)
MaxBySizeLast(opts) == MaxLastFrom(opts, 2, opts[1])

\* selected_video = max(video_options, key=lambda x: x['size_mb'])
MaxBySize(opts) == MaxFrom(opts, 2, opts[1])

\* The extractor is called: extract_redgifs_id, then the metadata request.
RedgifsStart ==
    /\ pc = "dispatch"
    /\ variant = "Redgifs"
    /\ \E idFound \in BOOLEAN :
         IF ~idFound
         THEN /\ ops' = Bump(ops, "process_redgifs_post")
              /\ Fail("NoGifId")
         ELSE /\ ops' = Bump(Bump(ops, "process_redgifs_post"), "metaFetch")
              /\ pc' = "awaitRedgifsMeta"
              /\ UNCHANGED <<failure, raised, result, payload>>
    /\ UNCHANGED <<netVars, post, variant, extrVars>>
    /\ UNCHANGED sideVars

\* get_redgifs_video_url answered: selection, mkdtemp, start of the download.
RedgifsMetaDone ==
    /\ pc = "awaitRedgifsMeta"
    /\ \E ok \in BOOLEAN :
         IF ~ok
         THEN /\ Fail("NoMetadata")
              /\ UNCHANGED <<ops, tiers, selected_video>>
         ELSE \E t \in TierMaps :
              /\ tiers' = t
              /\ IF VideoOptions(t) = <<>>
                 THEN /\ Fail("NoCandidatesWithinSizeLimit")
                      /\ UNCHANGED <<ops, selected_video>>
                 ELSE /\ selected_video' = <<MaxBySize(VideoOptions(t))>>
                      /\ ops' = Bump(Bump(ops, "mkdtemp"), "download")
                      /\ pc' = "awaitRedgifsDownload"
                      /\ UNCHANGED <<failure, raised, result, payload>>
    /\ UNCHANGED <<netVars, post, variant, dashVars, galleryVars, image>>
    /\ UNCHANGED sideVars

\* download_file answered.
RedgifsDownloadDone ==
    /\ pc = "awaitRedgifsDownload"
    /\ \E ok \in BOOLEAN :
         IF ok
         THEN /\ Return(MediaResult("video", <<Path("gif_id", 0, ".mp4")>>, "mp4"))
              /\ UNCHANGED failure
         ELSE Fail("DownloadFailure")
    /\ UNCHANGED <<netVars, post, variant, ops, extrVars>>
    /\ UNCHANGED sideVars

(***************************************************************************)
(* The DASH manifest and the size probe.                                   *)
(***************************************************************************)
\* A video Representation: its width attribute (0: none) and whether it has
\* a BaseURL element.
RepShapes ==
    [width : Widths, has_base : {TRUE}]
        \cup {[width |-> 0, has_base |-> TRUE], [width |-> 720, has_base |-> FALSE]}
\* An audio Representation: its bandwidth attribute (0: none) and whether it
\* has a non-empty BaseURL.
AudioShapes == [bandwidth : {0, 64, 128}, has_base : BOOLEAN]
MaxAudio == 2
AudioGroups ==
    [present : {TRUE}, reps : SeqsUpTo(AudioShapes, MaxAudio)]
        \cup {[present |-> FALSE, reps |-> <<>>]}

\* extract_audio_link: the loop keeps the highest bandwidth seen so far and
\* overwrites audio_base_url only when the new highest one has a BaseURL.
\* The result is <<>> (None) or <<i>>, the BaseURL of the i-th Representation.
RECURSIVE AudioFrom(_, _, _, _)
AudioFrom(rs, i, highest, base) ==
    IF i > Len(rs) THEN base
    ELSE IF rs[i].bandwidth > highest
         THEN AudioFrom(rs, i + 1, rs[i].bandwidth,
                        IF rs[i].has_base THEN <<i>> ELSE base)
         ELSE AudioFrom(rs, i + 1, highest, base)
extract_audio_link(grp) ==
    IF ~grp.present THEN <<>> ELSE AudioFrom(grp.reps, 1, 0, <<>>)

\* get_file_size_mb: round(size_bytes / (1024 * 1024), 1), in tenths of a MB.
\* Python rounds the exact quotient to the nearest tenth, a tie to the even one.
SizeMb(size_bytes) ==
    LET n == size_bytes * 10
        q == n \div MB
        r == n % MB
    IN  IF 2 * r < MB THEN q
        ELSE IF 2 * r > MB THEN q + 1
        ELSE IF q % 2 = 0 THEN q ELSE q + 1

\* get_file_size_mb for the HEAD answer a: None (<<>>) when the request or
\* raise_for_status raised httpx.HTTPError or int() raised ValueError on a
\* header that is no integer; else the rounded size, a missing header read
\* as 0 by headers.get('Content-Length', 0).
get_file_size_mb(a) ==
    IF ~a.ok \/ a.header = "text" THEN <<>>
    ELSE <<SizeMb(IF a.header = "integer" THEN a.size_bytes ELSE 0)>>

\* What a HEAD may answer: an error, no Content-Length header, or a length.
ProbeAnswers ==
    {[ok |-> FALSE, header |-> "absent", size_bytes |-> 0],
     [ok |-> TRUE, header |-> "absent", size_bytes |-> 0]}
        \cup [ok : {TRUE}, header : {"integer"}, size_bytes : ProbeSizes]

\* The tasks list of extract_video_links: one get_video_info per
\* Representation with a width and a BaseURL, in document order.  doc is the
\* position of the Representation in the manifest.
RECURSIVE TasksFrom(_, _)
TasksFrom(rs, i) ==
    IF i > Len(rs) THEN <<>>
    ELSE (IF rs[i].width # 0 /\ rs[i].has_base
          THEN <<[doc |-> i, resolution |-> rs[i].width, state |-> "pending",
                  head_ok |-> FALSE, header |-> "absent", size_bytes |-> 0,
                  size_mb |-> 0]>>
          ELSE <<>>) \o TasksFrom(rs, i + 1)
Tasks(rs) == TasksFrom(rs, 1)

\* Faulty variant of Probed, for sensitivity checks: an answer without a
\* Content-Length header counts as a failed probe.
ProbedHeaderRequired(slot, a) ==
    LET size_mb == IF a.header = "absent" THEN <<>> ELSE get_file_size_mb(a)
    IN  [slot EXCEPT !.state = IF size_mb # <<>> THEN "ok" ELSE "failed",
                     !.head_ok = a.ok,
                     !.header = a.header,
                     !.size_bytes = a.size_bytes,
                     !.size_mb = IF size_mb # <<>> THEN size_mb[1] ELSE 0]

\* get_video_info returning for one task with HEAD answer a: the entry is
\* None exactly when get_file_size_mb returned None.  head_ok records the
\* answer's outcome.
Probed(slot, a) ==
    LET size_mb == get_file_size_mb(a)
    IN  [slot EXCEPT !.state = IF size_mb # <<>> THEN "ok" ELSE "failed",
                     !.head_ok = a.ok,
                     !.header = a.header,
                     !.size_bytes = a.size_bytes,
                     !.size_mb = IF size_mb # <<>> THEN size_mb[1] ELSE 0]

\* Faulty variant of DashWithinLimit, for sensitivity checks: no size test.
DashNoLimit(size_mb) == TRUE

\* size_mb <= MAX_VIDEO_SIZE_MB, on tenths of a MB.
DashWithinLimit(size_mb) == size_mb <= MAX_VIDEO_SIZE_MB * 10

\* Faulty variant of GatherProbes, for sensitivity checks: the results in the order the probes completed.
GatherProbesAsCompleted(slots, order) == [k \in 1..Len(order) |-> slots[order[k]]]

\* asyncio.gather(*tasks): the results in the order of the tasks, whatever
\* the order the probes completed in.
GatherProbes(slots, order) == slots

\* The loop over video_info_list: the probed entries within the cap.
RECURSIVE VideoLinksFrom(_, _)
VideoLinksFrom(infos, i) ==
    IF i > Len(infos) THEN <<>>
    ELSE (IF infos[i].state = "ok" /\ DashWithinLimit(infos[i].size_mb)
          THEN <<infos[i]>>
          ELSE <<>>) \o VideoLinksFrom(infos, i + 1)
VideoLinks(infos) == VideoLinksFrom(infos, 1)

\* Insertion of v into a list sorted by descending resolution, after every
\* entry of the same resolution.
RECURSIVE InsertDesc(_, _)
InsertDesc(sorted, v) ==
    IF sorted = <<>> THEN <<v>>
    ELSE IF Head(sorted).resolution >= v.resolution
         THEN <<Head(sorted)>> \o InsertDesc(Tail(sorted), v)
         ELSE <<v>> \o sorted

\* sorted(video_options, key=resolution, reverse=True): Python's sort is
\* stable, also with reverse=True.
RECURSIVE SortedFrom(_, _, _)
SortedFrom(videos, i, acc) ==
    IF i > Len(videos) THEN acc
    ELSE SortedFrom(videos, i + 1, InsertDesc(acc, videos[i]))
SortedByResolution(videos) == SortedFrom(videos, 1, <<>>)

(***************************************************************************)
(* process_video_post.                                                     *)
(***************************************************************************)
\* The extractor is called: dash_url check, mkdtemp, the manifest request.
VideoStart ==
    /\ pc = "dispatch"
    /\ variant = "Video"
    /\ IF post.dash_url = <<>>
       THEN /\ ops' = Bump(ops, "process_video_post")
            /\ Fail("MissingManifestURL")
       ELSE /\ ops' = Bump(Bump(Bump(ops, "process_video_post"), "mkdtemp"),
                           "manifestFetch")
            /\ pc' = "awaitManifest"
            /\ UNCHANGED <<failure, raised, result, payload>>
    /\ UNCHANGED <<netVars, post, variant, extrVars>>
    /\ UNCHANGED sideVars

\* fetch_dash_xml answered: extract_audio_link, then extract_video_links
\* starts one probe per task.  Without the manifest parse_dash_xml returns {}.
ManifestDone ==
    /\ pc = "awaitManifest"
    /\ \E ok \in BOOLEAN :
         IF ~ok
         THEN /\ Fail("ManifestFetchFailure")
              /\ UNCHANGED <<ops, reps, audio_link, probes>>
         ELSE \E rs \in SeqsUpTo(RepShapes, MaxReps), grp \in AudioGroups :
              /\ reps' = rs
              /\ audio_link' = extract_audio_link(grp)
              /\ probes' = Tasks(rs)
              /\ ops' = BumpBy(ops, "probe", Len(Tasks(rs)))
              /\ pc' = "awaitProbes"
              /\ UNCHANGED <<failure, raised, result, payload>>
    /\ UNCHANGED <<netVars, post, variant, redgifsVars, probeOrder, best_video, dl,
                   galleryVars, image>>
    /\ UNCHANGED sideVars

\* One size probe answered.
ProbeDone(i) ==
    /\ pc = "awaitProbes"
    /\ probes[i].state = "pending"
    /\ \E a \in ProbeAnswers : probes' = [probes EXCEPT ![i] = Probed(@, a)]
    /\ probeOrder' = Append(probeOrder, i)
    /\ UNCHANGED <<pc, netVars, ops, post, variant, failure, raised, result, payload,
                   redgifsVars, reps, audio_link, best_video, dl, galleryVars, image>>
    /\ UNCHANGED sideVars

\* The join of the probes: filtering, selection, start of the downloads.
ProbesJoined ==
    /\ pc = "awaitProbes"
    /\ \A i \in 1..Len(probes) : probes[i].state # "pending"
    /\ LET video_options == VideoLinks(GatherProbes(probes, probeOrder))
       IN  IF video_options = <<>>
           THEN /\ Fail("NoCandidatesWithinSizeLimit")
                /\ UNCHANGED <<ops, best_video, dl>>
           ELSE /\ best_video' = <<SortedByResolution(video_options)[1]>>
                /\ dl' = [video |-> "pending",
                          audio |-> IF audio_link # <<>> THEN "pending" ELSE "absent"]
                /\ ops' = BumpBy(ops, "download", IF audio_link # <<>> THEN 2 ELSE 1)
                /\ pc' = "awaitDownloads"
                /\ UNCHANGED <<failure, raised, result, payload>>
    /\ UNCHANGED <<netVars, post, variant, redgifsVars, reps, audio_link, probes,
                   probeOrder, galleryVars, image>>
    /\ UNCHANGED sideVars

\* One of the two stream downloads answered.
StreamDone(which) ==
    /\ pc = "awaitDownloads"
    /\ dl[which] = "pending"
    /\ \E ok \in BOOLEAN : dl' = [dl EXCEPT ![which] = IF ok THEN "ok" ELSE "failed"]
    /\ UNCHANGED <<pc, netVars, ops, post, variant, failure, raised, result, payload,
                   redgifsVars, reps, audio_link, probes, probeOrder, best_video,
                   galleryVars, image>>
    /\ UNCHANGED sideVars

VideoFile == MediaResult("video", <<Path("video", 0, ".mp4")>>, "mp4")
MuxedFile == MediaResult("video", <<Path("output_video", 0, ".mp4")>>, "mp4")

\* Faulty variant of MuxResult, for sensitivity checks: the video-only file when ffmpeg failed.
MuxResultFallback(exit) == IF exit = "zero" THEN MuxedFile ELSE VideoFile

\* What process_video_post returns after subprocess.run(check=True) ended
\* with the given exit status.
MuxResult(exit) == IF exit = "zero" THEN MuxedFile ELSE EmptyResult

\* Faulty variant of AllDownloaded, for sensitivity checks: one successful
\* download is enough.
AnyDownloaded(d) == d.video = "ok" \/ d.audio = "ok"

\* all(results) over the joined downloads: no download returned False.
AllDownloaded(d) == d.video # "failed" /\ d.audio # "failed"

\* The join of the downloads, and the mux when there is an audio stream.
\* subprocess.run ends with exit status zero or non-zero (CalledProcessError,
\* caught), or the ffmpeg binary is missing (FileNotFoundError, not caught).
StreamsJoined ==
    /\ pc = "awaitDownloads"
    /\ dl.video # "pending" /\ dl.audio # "pending"
    /\ IF ~AllDownloaded(dl)
       THEN /\ Fail("DownloadFailure")
            /\ ops' = ops
       ELSE IF audio_link # <<>>
       THEN /\ ops' = Bump(ops, "mux")
            /\ \E exit \in {"zero", "nonzero", "missing"} :
                 IF exit = "missing"
                 THEN /\ Raise("process_video_post")
                      /\ failure' = failure
                 ELSE /\ failure' = IF exit = "zero" THEN failure ELSE "MuxFailure"
                      /\ Return(MuxResult(exit))
       ELSE /\ ops' = ops
            /\ failure' = failure
            /\ Return(VideoFile)
    /\ UNCHANGED <<netVars, post, variant, extrVars>>
    /\ UNCHANGED sideVars

(***************************************************************************)
(* process_gallery_post.  An item is named by what download_media finds    *)
(* for its media_id in media_metadata.                                     *)
(***************************************************************************)
ItemKinds == {"noinfo", "unknown", "image_nosrc", "image",
              "anim_mp4", "anim_gif", "anim_none"}
Skipped == {"noinfo", "unknown", "image_nosrc", "anim_none"}

\* The extension of the file an item is saved to.
ItemExt(kind) ==
    CASE kind = "image" -> ".jpg"
      [] kind = "anim_mp4" -> ".mp4"
      [] kind = "anim_gif" -> ".gif"
      [] OTHER -> ""

\* Faulty variant of StartItem, for sensitivity checks: the file name carries
\* no index.
StartItemUnindexed(idx, kind) ==
    [state |-> IF kind \in Skipped THEN "none" ELSE "pending",
     path |-> Path("media", 0, ItemExt(kind))]

\* download_media(idx, media_id) up to its await: a skipped item has returned
\* None, the others wait for download_file on media_<idx><ext>.
StartItem(idx, kind) ==
    [state |-> IF kind \in Skipped THEN "none" ELSE "pending",
     path |-> Path("media", idx, ItemExt(kind))]

\* Faulty variant of GatherItems, for sensitivity checks: the results in the order the downloads completed.
GatherItemsAsCompleted(slots, order) == [k \in 1..Len(order) |-> slots[order[k]]]

\* asyncio.gather(*download_tasks): the results in the order of the tasks.
GatherItems(slots, order) == slots

\* files = [f for f in files if f is not None]
RECURSIVE FilesFrom(_, _)
FilesFrom(slots, i) ==
    IF i > Len(slots) THEN <<>>
    ELSE (IF slots[i].state = "ok" THEN <<slots[i].path>> ELSE <<>>)
             \o FilesFrom(slots, i + 1)
Files(slots) == FilesFrom(slots, 1)

\* The extractor is called: media_metadata check, mkdtemp, the item list of
\* gallery_data (None['items'] is a TypeError), start of every download_media.
GalleryStart ==
    /\ pc = "dispatch"
    /\ variant = "Gallery"
    /\ \E has_metadata \in BOOLEAN, has_gallery_data \in BOOLEAN :
         IF ~has_metadata
         THEN /\ ops' = Bump(ops, "process_gallery_post")
              /\ Fail("NoMediaMetadata")
              /\ UNCHANGED galleryVars
         ELSE IF ~has_gallery_data
         THEN /\ ops' = Bump(Bump(ops, "process_gallery_post"), "mkdtemp")
              /\ Raise("process_gallery_post")
              /\ UNCHANGED <<failure, galleryVars>>
         ELSE \E its \in SeqsUpTo(ItemKinds, MaxItems) :
              /\ items' = its
              /\ gslots' = [i \in 1..Len(its) |-> StartItem(i - 1, its[i])]
              /\ gorder' = <<>>
              /\ ops' = BumpBy(Bump(Bump(ops, "process_gallery_post"), "mkdtemp"),
                               "download",
                               Cardinality({i \in 1..Len(its) : its[i] \notin Skipped}))
              /\ pc' = "awaitGallery"
              /\ UNCHANGED <<failure, raised, result, payload>>
    /\ UNCHANGED <<netVars, post, variant, redgifsVars, dashVars, image>>
    /\ UNCHANGED sideVars

\* The download of one item answered.
ItemDone(i) ==
    /\ pc = "awaitGallery"
    /\ gslots[i].state = "pending"
    /\ \E ok \in BOOLEAN :
         gslots' = [gslots EXCEPT ![i].state = IF ok THEN "ok" ELSE "none"]
    /\ gorder' = Append(gorder, i)
    /\ UNCHANGED <<pc, netVars, ops, post, variant, failure, raised, result, payload,
                   redgifsVars, dashVars, items, image>>
    /\ UNCHANGED sideVars

\* The join of the item tasks: the gallery result.
GalleryJoined ==
    /\ pc = "awaitGallery"
    /\ \A i \in 1..Len(gslots) : gslots[i].state # "pending"
    /\ Return(MediaResult("gallery", Files(GatherItems(gslots, gorder)), ""))
    /\ UNCHANGED <<netVars, ops, post, variant, failure, extrVars>>
    /\ UNCHANGED sideVars

(***************************************************************************)
(* process_image_post.                                                     *)
(***************************************************************************)
NoPreview == [present |-> FALSE, rvp |-> "absent", variant_mp4 |-> FALSE]
Previews ==
    [present : {TRUE}, rvp : {"absent", "with_fallback", "no_fallback"},
     variant_mp4 : BOOLEAN] \cup {NoPreview}
\* post_data.url: empty, ending in .gif, with another extension, with none.
ImageInputs ==
    [url : {"gif"}, preview : Previews]
        \cup [url : {"empty", "png", "noext"}, preview : {NoPreview}]

\* The mp4_url the GIF branch finds in preview: <<>> is None.
Mp4Url(pv) ==
    IF pv.rvp # "absent"
    THEN (IF pv.rvp = "with_fallback" THEN <<"fallback_url">> ELSE <<>>)
    ELSE IF pv.variant_mp4 THEN <<"variant_mp4">> ELSE <<>>

\* What the extractor downloads and the extension of the file it writes.
ImagePlan(in) ==
    IF in.url = "gif"
    THEN IF in.preview.present /\ Mp4Url(in.preview) # <<>>
         THEN [src |-> Mp4Url(in.preview)[1], ext |-> ".mp4", file_type |-> "mp4"]
         ELSE [src |-> "url", ext |-> ".gif", file_type |-> "gif"]
    ELSE IF in.url = "png"
         THEN [src |-> "url", ext |-> ".png", file_type |-> "png"]
         ELSE [src |-> "url", ext |-> ".jpg", file_type |-> "jpg"]

\* The extractor is called: url check, mkdtemp, start of the one download.
ImageStart ==
    /\ pc = "dispatch"
    /\ variant = "Image"
    /\ \E in \in ImageInputs :
         IF in.url = "empty"
         THEN /\ ops' = Bump(ops, "process_image_post")
              /\ Fail("NoImageUrl")
              /\ image' = image
         ELSE /\ ops' = Bump(Bump(Bump(ops, "process_image_post"), "mkdtemp"),
                             "download")
              /\ image' = <<[input |-> in, plan |-> ImagePlan(in)]>>
              /\ pc' = "awaitImage"
              /\ UNCHANGED <<failure, raised, result, payload>>
    /\ UNCHANGED <<netVars, post, variant, redgifsVars, dashVars, galleryVars>>
    /\ UNCHANGED sideVars

\* download_file answered.
ImageDone ==
    /\ pc = "awaitImage"
    /\ \E ok \in BOOLEAN :
         IF ok
         THEN /\ Return(MediaResult("image",
                                    <<Path("image", 0, image[1].plan.ext)>>,
                                    image[1].plan.file_type))
              /\ UNCHANGED failure
         ELSE Fail("DownloadFailure")
    /\ UNCHANGED <<netVars, post, variant, ops, extrVars>>
    /\ UNCHANGED sideVars

(***************************************************************************)
(* The run.                                                                *)
(***************************************************************************)
Next ==
    \/ Start
    \/ HeadDone
    \/ GetDone
    \/ CacheDone
    \/ PostFetchDone
    \/ OtherRun
    \/ RedgifsStart
    \/ RedgifsMetaDone
    \/ RedgifsDownloadDone
    \/ VideoStart
    \/ ManifestDone
    \/ \E i \in 1..Len(probes) : ProbeDone(i)
    \/ ProbesJoined
    \/ \E which \in {"video", "audio"} : StreamDone(which)
    \/ StreamsJoined
    \/ GalleryStart
    \/ \E i \in 1..Len(gslots) : ItemDone(i)
    \/ GalleryJoined
    \/ ImageStart
    \/ ImageDone

Spec == Init /\ [][Next]_vars

(***************************************************************************)
(* The functions on their own: download_file, get_file_size_mb and         *)
(* extract_audio_link, each applied to inputs drawn from bounded sets.     *)
(* call holds the function, its inputs and its outcome; the pipeline       *)
(* variables stay at their initial values.                                 *)
(***************************************************************************)
\* How client.get and raise_for_status end, and how open and f.write end.
RequestOutcomes == {"ok", "transport_error", "status_error"}
WriteOutcomes == {"ok", "os_error"}

\* The file paths the extractors hand to download_file.
TargetPaths ==
    {Path("gif_id", 0, ".mp4"), Path("video", 0, ".mp4"), Path("audio", 0, ".mp4")}
        \cup {Path("image", 0, e) : e \in {".mp4", ".gif", ".png", ".jpg"}}
        \cup {Path("media", i, e) : i \in 0..(MaxItems - 1), e \in {".jpg", ".mp4", ".gif"}}

\* download_file(url, file_path): the except clause names httpx.HTTPError
\* alone, which the request and raise_for_status raise; an OSError of open or
\* f.write is not caught.  ret is the value returned, raised the exception
\* that left the function, written the file written.
download_file(file_path, request, write) ==
    IF request # "ok"
    THEN [ret |-> "False", raised |-> "none", written |-> <<>>]
    ELSE IF write = "ok"
         THEN [ret |-> "True", raised |-> "none", written |-> <<file_path>>]
         ELSE [ret |-> "none", raised |-> "OSError", written |-> <<>>]

\* Content-Length values: around the steps of the rounding (0.05 MB, the ties
\* 0.25 MB and 0.75 MB), around the cap and around 45.05 MB.
SizeSamples ==
    {0, 1, 52428, 52429, 262144, 786432, 45 * MB - 1, 45 * MB, 45 * MB + 1,
     47238348, 47238349, 50 * MB}

\* What a HEAD may answer, with a Content-Length that is no integer too.
HeadAnswers ==
    {[ok |-> FALSE, header |-> "absent", size_bytes |-> 0],
     [ok |-> TRUE, header |-> "absent", size_bytes |-> 0],
     [ok |-> TRUE, header |-> "text", size_bytes |-> 0]}
        \cup [ok : {TRUE}, header : {"integer"}, size_bytes : SizeSamples]

runVars == <<pc, url, cache, json_url, ops, post, variant, failure, raised, result,
             payload, extrVars>>

CallInit ==
    /\ Init
    /\ url = [short |-> FALSE, std |-> TRUE, ep |-> Requested]
    /\ cache = {OtherPost}

CallDownloadFile ==
    /\ \E file_path \in TargetPaths, request \in RequestOutcomes,
          write \in WriteOutcomes :
         call' = [fn |-> "download_file",
                  in |-> [file_path |-> file_path, request |-> request,
                          write |-> write],
                  out |-> download_file(file_path, request, write)]
    /\ UNCHANGED <<runVars, job, fs, runs, log>>

CallGetFileSizeMb ==
    /\ \E a \in HeadAnswers :
         call' = [fn |-> "get_file_size_mb", in |-> a, out |-> get_file_size_mb(a)]
    /\ UNCHANGED <<runVars, job, fs, runs, log>>

CallExtractAudioLink ==
    /\ \E grp \in AudioGroups :
         call' = [fn |-> "extract_audio_link", in |-> grp,
                  out |-> extract_audio_link(grp)]
    /\ UNCHANGED <<runVars, job, fs, runs, log>>

CallNext ==
    \/ CallDownloadFile
    \/ CallGetFileSizeMb
    \/ CallExtractAudioLink

CallSpec == CallInit /\ [][CallNext]_vars

(***************************************************************************)
(* Two runs side by side, for the same post: the part of the gallery and   *)
(* video extractors that touches the file system.  Each run calls mkdtemp  *)
(* for itself and joins every file name with the directory it got.         *)
(***************************************************************************)
\* Names mkdtemp may give a directory.
DirNames == {"tmp_a", "tmp_b", "tmp_c"}

\* The posts: a gallery with its items, a video with or without audio.
Jobs ==
    [kind : {"gallery"}, items : SeqsUpTo(ItemKinds, MaxItems), audio : {FALSE}]
        \cup [kind : {"video"}, items : {<<>>}, audio : BOOLEAN]

\* video_file_path and audio_file_path.
StreamPath(which) == Path(which, 0, ".mp4")

\* The file names of the downloads an extractor launches together: the item
\* tasks that reach download_file, or the download_tasks of a video.
RECURSIVE ItemTargetsFrom(_, _)
ItemTargetsFrom(its, i) ==
    IF i > Len(its) THEN <<>>
    ELSE (IF StartItem(i - 1, its[i]).state = "pending"
          THEN <<StartItem(i - 1, its[i]).path>>
          ELSE <<>>) \o ItemTargetsFrom(its, i + 1)
DownloadTargets(j) ==
    IF j.kind = "gallery" THEN ItemTargetsFrom(j.items, 1)
    ELSE <<StreamPath("video")>> \o (IF j.audio THEN <<StreamPath("audio")>> ELSE <<>>)

RunsInit ==
    /\ Init
    /\ url = [short |-> FALSE, std |-> TRUE, ep |-> Requested]
    /\ cache = {OtherPost}

\* The post both requests are for is fetched; MEDIA_DIR may hold a directory
\* an earlier run left.
RunsPost ==
    /\ job = NoJob
    /\ job' \in Jobs
    /\ fs' \in {{}, {"tmp_a"}}
    /\ UNCHANGED <<runVars, call, log, runs>>

\* tempfile.mkdtemp: creates a directory under a name no directory has.
RunMkdtemp(r) ==
    /\ job # NoJob
    /\ runs[r].stage = "idle"
    /\ \E d \in DirNames \ fs :
         /\ fs' = fs \cup {d}
         /\ runs' = [runs EXCEPT ![r].stage = "made", ![r].temp_dir = d]
    /\ UNCHANGED <<runVars, call, log, job>>

\* The downloads are launched together, each to os.path.join(temp_dir, name).
RunStartDownloads(r) ==
    /\ runs[r].stage = "made"
    /\ runs' = [runs EXCEPT
                  ![r].stage = "downloading",
                  ![r].tasks = [k \in 1..Len(DownloadTargets(job)) |->
                                  [file |-> <<runs[r].temp_dir, DownloadTargets(job)[k]>>,
                                   state |-> "writing"]]]
    /\ UNCHANGED <<runVars, call, log, job, fs>>

\* One download_file returned.
RunDownloadDone(r, k) ==
    /\ runs[r].stage = "downloading"
    /\ runs[r].tasks[k].state = "writing"
    /\ runs' = [runs EXCEPT ![r].tasks[k].state = "returned"]
    /\ UNCHANGED <<runVars, call, log, job, fs>>

\* asyncio.gather returned.
RunJoin(r) ==
    /\ runs[r].stage = "downloading"
    /\ \A k \in 1..Len(runs[r].tasks) : runs[r].tasks[k].state = "returned"
    /\ runs' = [runs EXCEPT ![r].stage = "joined"]
    /\ UNCHANGED <<runVars, call, log, job, fs>>

RunsNext ==
    \/ RunsPost
    \/ \E r \in Runs : RunMkdtemp(r)
    \/ \E r \in Runs : RunStartDownloads(r)
    \/ \E r \in Runs : \E k \in 1..Len(runs[r].tasks) : RunDownloadDone(r, k)
    \/ \E r \in Runs : RunJoin(r)

RunsSpec == RunsInit /\ [][RunsNext]_vars

(***************************************************************************)
(* Successive runs.  The requests of one client follow one another on the  *)
(* same links_table; log keeps, for every finished run, the endpoint it    *)
(* resolved, whether the lookup answered it, how many post fetches it      *)
(* started and how it ended.  URL resolution and the cache lookup are the  *)
(* actions of the single run; the rest of match_reddit is one step.        *)
(***************************************************************************)
MaxRuns == 2       \* finished runs the log keeps

\* Faulty variant of SavedLinks, for sensitivity checks: the save is made.
SavedLinksInserted(c, ep) == c \cup {ep}

\* links_table after match_reddit passed a parsed post: the call of
\* save_link_info_to_db is commented out, nothing is inserted.
SavedLinks(c, ep) == c

\* What fetch_reddit_json_data hands back for a post it could extract.
SeqResults ==
    {OtherResult, MediaResult("image", <<Path("image", 0, ".jpg")>>, "jpg")}

SeqInit == Init

\* match_reddit from the answer of the post fetch to its return.
SeqExtract ==
    /\ pc = "awaitPost"
    /\ \/ /\ \E cause \in {"FetchFailure", "InvalidStructure"} : Fail(cause)
          /\ cache' = cache
       \/ /\ failure' = "Deleted"
          /\ Return(DeletedResult)
          /\ cache' = cache
       \/ /\ Raise("fetch_reddit_json_data")
          /\ UNCHANGED <<failure, cache>>
       \/ /\ \E res \in SeqResults : Return(res)
          /\ cache' = SavedLinks(cache, json_url[1])
          /\ failure' = failure
    /\ UNCHANGED <<url, json_url, ops, post, variant, extrVars>>
    /\ UNCHANGED <<call, job, fs, runs, log>>

\* get_media has answered (or the exception has left it); the next request
\* arrives on the same links_table.
SeqNextRequest ==
    /\ pc \in {"done", "failed", "raised"}
    /\ Len(log) < MaxRuns
    /\ log' = Append(log, [ep      |-> json_url,
                           hit     |-> ops["cacheLookup"] = 1 /\ ops["postFetch"] = 0,
                           fetched |-> ops["postFetch"],
                           status  |-> pc])
    /\ pc' = "start"
    /\ url' \in [short : BOOLEAN, std : BOOLEAN, ep : {Requested}]
    /\ json_url' = <<>>
    /\ ops' = [o \in OpNames |-> 0]
    /\ failure' = "none"
    /\ raised' = "none"
    /\ result' = EmptyResult
    /\ payload' = NoPayload
    /\ UNCHANGED <<cache, post, variant, extrVars>>
    /\ UNCHANGED <<call, job, fs, runs>>

SeqNext ==
    \/ Start
    \/ HeadDone
    \/ GetDone
    \/ CacheDone
    \/ SeqExtract
    \/ SeqNextRequest

SeqSpec == SeqInit /\ [][SeqNext]_vars

(***************************************************************************)
(* Properties.                                                             *)
(***************************************************************************)
CapBytes  == MAX_VIDEO_SIZE_MB * MB
CapTenths == MAX_VIDEO_SIZE_MB * 10

\* The probe tasks whose probe succeeded with a size within the cap.
Admissible ==
    {i \in 1..Len(probes) : probes[i].state = "ok" /\ probes[i].size_mb <= CapTenths}

\* C1: the candidate the Redgifs extractor or the Video/DASH extractor selects
\* has a size of at most 45 MB (the byte count of a redgifs tier, the probed
\* size in MB of a DASH representation), a download or a video artifact exists
\* only for a selected candidate, and no candidate over the cap is selected.
C1_SelectedWithinCap ==
    /\ \A k \in 1..Len(selected_video) : selected_video[k].size_bytes <= CapBytes
    /\ \A k \in 1..Len(best_video) :
          /\ best_video[k].state = "ok"
          /\ best_video[k].size_mb <= CapTenths
    /\ \A i \in 1..Len(probes) :
          probes[i].state = "ok" /\ probes[i].size_mb > CapTenths
              => <<probes[i]>> # best_video
    /\ pc \in {"awaitRedgifsDownload"} => Len(selected_video) = 1
    /\ pc \in {"awaitDownloads"} => Len(best_video) = 1
    /\ result.type = "video" => Len(selected_video) + Len(best_video) = 1

\* C1 witness: a finished video run in which a representation of higher
\* resolution than the selected one was probed over the cap.
C1_Witness ==
    /\ pc = "done"
    /\ Len(best_video) = 1
    /\ \E i \in 1..Len(probes) :
          /\ probes[i].state = "ok"
          /\ probes[i].size_mb > CapTenths
          /\ probes[i].resolution > best_video[1].resolution

\* C2: the video the Video/DASH extractor selects is an admissible candidate
\* of maximum resolution, the first in manifest order among those of that
\* resolution, whatever the order the probes completed in; the extractor
\* fails for lack of candidates only when no candidate is admissible.
C2_MaxResolutionFirstInDocument ==
    /\ \A k \in 1..Len(best_video) :
          \E i \in Admissible :
             /\ best_video[k] = probes[i]
             /\ \A j \in Admissible :
                   \/ probes[j].resolution < probes[i].resolution
                   \/ /\ probes[j].resolution = probes[i].resolution
                      /\ probes[j].doc >= probes[i].doc
    /\ (variant = "Video" /\ failure = "NoCandidatesWithinSizeLimit") => Admissible = {}
    /\ (pc = "awaitDownloads") => Len(best_video) = 1

\* C2 witness: two admissible representations of the maximum width, the
\* second one probed first, and the first one selected.
C2_Witness ==
    /\ Len(best_video) = 1
    /\ \E i, j \in Admissible :
          /\ i < j
          /\ probes[i].resolution = probes[j].resolution
          /\ best_video[1] = probes[i]
          /\ \E a, b \in 1..Len(probeOrder) :
                a < b /\ probeOrder[a] = j /\ probeOrder[b] = i

\* The tiers that survive the size filter, by position in TierOrder.
Survivors == {i \in 1..Len(tiers) : tiers[i] # Absent /\ tiers[i] <= CapBytes}

\* C3: once the tiers are read, the Redgifs extractor selects the surviving
\* tier of maximum size, the first in the order mp4, mobile, max5mbGif,
\* max2mbGif on a tie; it fails with NoCandidatesWithinSizeLimit, with an empty
\* result and no download, exactly when no tier survives; the tiers
\* {mp4: 50MB, mobile: 10MB, max5mbGif: 4MB} select mobile.
C3_RedgifsSelection ==
    tiers # <<>> =>
        /\ (Survivors = {}) <=> (failure = "NoCandidatesWithinSizeLimit")
        /\ Survivors = {} =>
              /\ pc = "failed"
              /\ result = EmptyResult
              /\ ops["download"] = 0
              /\ selected_video = <<>>
        /\ Survivors # {} =>
              \E m \in Survivors :
                 /\ selected_video = <<[key |-> TierOrder[m], size_bytes |-> tiers[m]]>>
                 /\ \A i \in Survivors :
                       tiers[i] < tiers[m] \/ (tiers[i] = tiers[m] /\ i >= m)
        /\ tiers = <<50 * MB, 10 * MB, 4 * MB, Absent>> =>
              selected_video = <<[key |-> "mobile", size_bytes |-> 10 * MB]>>

\* C3 witness: the tiers {mp4: 50MB, mobile: 10MB, max5mbGif: 4MB} were read,
\* mobile was selected and downloaded.
C3_Witness ==
    /\ tiers = <<50 * MB, 10 * MB, 4 * MB, Absent>>
    /\ Len(selected_video) = 1
    /\ selected_video[1].key = "mobile"
    /\ pc = "done"

Extractors == {"process_redgifs_post", "process_gallery_post", "process_video_post",
               "process_image_post", "process_other_post"}
ExtractorOf(v) ==
    CASE v = "Redgifs" -> "process_redgifs_post"
      [] v = "Gallery" -> "process_gallery_post"
      [] v = "Video" -> "process_video_post"
      [] v = "Image" -> "process_image_post"
      [] OTHER -> "process_other_post"
IsRedgifs(p) == p.domain = "redgifs.com" \/ p.domain = "www.redgifs.com"

\* C4: a validated post is classified as exactly one of the five variants, by
\* the priority Redgifs, Gallery, Video, Image, Other; classification does not
\* fail, and the extractor of that variant and no other is called, once.
C4_ClassificationPriority ==
    post.raw = "valid" =>
        /\ variant \in {"Redgifs", "Gallery", "Video", "Image", "Other"}
        /\ variant = "Redgifs" <=> IsRedgifs(post)
        /\ variant = "Gallery" <=> ~IsRedgifs(post) /\ post.is_gallery
        /\ variant = "Video" <=>
              ~IsRedgifs(post) /\ ~post.is_gallery /\ post.is_video
        /\ variant = "Image" <=>
              /\ ~IsRedgifs(post) /\ ~post.is_gallery /\ ~post.is_video
              /\ post.post_hint = "image"
        /\ variant = "Other" <=>
              /\ ~IsRedgifs(post) /\ ~post.is_gallery /\ ~post.is_video
              /\ post.post_hint # "image"
        /\ failure \notin {"InvalidStructure", "ValidationError", "Deleted"}
        /\ \A e \in Extractors \ {ExtractorOf(variant)} : ops[e] = 0
        /\ ops[ExtractorOf(variant)] = IF pc = "dispatch" THEN 0 ELSE 1

\* C4 witness: a post that satisfies all four conditions was handled by the
\* Redgifs extractor.
C4_Witness ==
    /\ post.raw = "valid"
    /\ IsRedgifs(post) /\ post.is_gallery /\ post.is_video /\ post.post_hint = "image"
    /\ variant = "Redgifs"
    /\ ops["process_redgifs_post"] = 1

\* C5: when ffmpeg exits non-zero after both streams were downloaded, the
\* extraction returns the empty result, the run is Failed with a status-error
\* payload, and the video-only file is returned only for a manifest without
\* audio.
C5_MuxFailureIsFatal ==
    /\ failure = "MuxFailure" =>
          /\ pc = "failed"
          /\ result = EmptyResult
          /\ payload.status = "error"
          /\ dl.video = "ok" /\ dl.audio = "ok"
    /\ result = VideoFile => audio_link = <<>>

\* C5 witness: both downloads succeeded, the mux failed, the run is Failed.
C5_Witness ==
    /\ failure = "MuxFailure"
    /\ dl.video = "ok" /\ dl.audio = "ok"
    /\ ops["mux"] = 1
    /\ pc = "failed"

\* The items whose download succeeded, by position in the item list.
Succeeded == {i \in 1..Len(gslots) : gslots[i].state = "ok"}

\* C6: the file list of a gallery result holds exactly the items that
\* succeeded, each under its position-indexed name media_<index>, in the order
\* of the item list, whatever the outcomes of the other items and the order
\* the downloads completed in; once the item tasks run the batch does not fail.
C6_GalleryOrderPreserved ==
    /\ result.type = "gallery" =>
          LET f == result.file_paths
          IN  /\ Len(f) = Cardinality(Succeeded)
              /\ \A i \in Succeeded :
                    \E k \in 1..Len(f) : f[k] = Path("media", i - 1, ItemExt(items[i]))
              /\ \A k, l \in 1..Len(f) : k < l => f[k][2] < f[l][2]
    /\ (variant = "Gallery" /\ Len(gslots) > 0) => pc \in {"awaitGallery", "done"}
    /\ (variant = "Gallery" /\ pc = "done") => result.type = "gallery"

\* C6 witness: the first item's download failed after the second one's had
\* succeeded, and the result holds the second item alone, as media_1.
C6_Witness ==
    /\ pc = "done"
    /\ Len(items) = 2
    /\ items[1] \notin Skipped
    /\ gslots[1].state = "none"
    /\ gslots[2].state = "ok"
    /\ gorder = <<2, 1>>
    /\ result.file_paths = <<Path("media", 1, ItemExt(items[2]))>>

\* C7: a gallery run that reached its item tasks and in which every item
\* failed or was skipped ends in Done: the result is a gallery object with an
\* empty file list and the payload is a success carrying it.
C7_EmptyGalleryIsSuccess ==
    ( /\ variant = "Gallery"
      /\ pc \in {"done", "failed"}
      /\ failure # "NoMediaMetadata"
      /\ \A i \in 1..Len(gslots) : gslots[i].state = "none" )
    => /\ pc = "done"
       /\ result = MediaResult("gallery", <<>>, "")
       /\ payload = [status |-> "success", message |-> "none", data |-> result]

\* C7 witness: a gallery with a failed download and no successful item ended
\* in Done.
C7_Witness ==
    /\ variant = "Gallery"
    /\ pc = "done"
    /\ Len(items) >= 1
    /\ \E i \in 1..Len(items) : items[i] \notin Skipped
    /\ \A i \in 1..Len(gslots) : gslots[i].state = "none"
    /\ payload.status = "success"

\* C8: the cache is looked up once, after URL resolution and before the post
\* fetch, under the resolved endpoint; on a hit the run ends in Done with the
\* stored record as the caller's result and performs no post fetch,
\* classification, probe, download or mux.
C8_CacheHitReturnsRecord ==
    /\ ops["cacheLookup"] <= 1
    /\ ops["postFetch"] > 0 => (ops["cacheLookup"] = 1 /\ json_url # <<>>)
    /\ ( /\ json_url # <<>>
         /\ json_url[1] \in cache
         /\ pc \notin {"start", "awaitHead", "awaitGet", "awaitCache"} )
       => /\ pc = "done"
          /\ payload = [status |-> "success", message |-> "none", data |-> StoredRecord]
          /\ \A o \in {"postFetch", "classify", "probe", "download", "mux"} : ops[o] = 0

\* C9: fail-fast.  The step that takes an error branch ends the run in Failed
\* with an error payload and starts no operation (a failed mux is the mux that
\* step ran), and once an error branch is taken no operation is started.
\* Failed item downloads of a gallery are no error branch.
C9_FailFast ==
    [][ /\ failure' # "none" =>
              /\ pc' = "failed"
              /\ payload'.status = "error"
        /\ (failure = "none" /\ failure' # "none") =>
              \/ ops' = ops
              \/ failure' = "MuxFailure" /\ ops' = Bump(ops, "mux")
              \/ failure' \in {"InvalidStructure", "Deleted", "ValidationError"}
                    /\ ops' = Bump(ops, "classify")
              \/ \E e \in Extractors :
                    /\ failure' \in {"NoGifId", "MissingManifestURL",
                                      "NoMediaMetadata", "NoImageUrl"}
                    /\ ops' = Bump(ops, e)
        /\ failure # "none" => (ops' = ops /\ pc' = pc) ]_vars

\* C9 witness: a video run failed for lack of an admissible candidate after
\* its probes, and no download and no mux was started.
C9_Witness ==
    /\ variant = "Video"
    /\ failure = "NoCandidatesWithinSizeLimit"
    /\ Len(probes) > 0
    /\ pc = "failed"
    /\ ops["download"] = 0 /\ ops["mux"] = 0

\* C10: no extractor raises, whatever the post, the network and the mux tool
\* do: a failure is an empty result, and an empty result becomes a status-error
\* payload.
C10_ExtractorsNeverRaise ==
    /\ raised \notin Extractors
    /\ (pc \in {"done", "failed"} /\ ~Truthy(result)) =>
          payload = [status |-> "error", message |-> "generic", data |-> EmptyResult]

\* C11: a run whose URL resolution ended without a match of the canonical
\* pattern is Failed with InvalidURL, an empty result and an error payload,
\* and performed no cache lookup and no fetch; this includes a short link
\* whose HEAD and GET both failed, which does not end in an unhandled error.
C11_InvalidURLNeverRaises ==
    /\ (pc \notin {"start", "awaitHead", "awaitGet"} /\ json_url = <<>>) =>
          /\ failure = "InvalidURL"
          /\ pc = "failed"
          /\ result = EmptyResult
          /\ payload.status = "error"
          /\ ops["cacheLookup"] = 0 /\ ops["postFetch"] = 0
    /\ failure = "InvalidURL" => json_url = <<>>
    /\ raised # "match_reddit"

\* C12: the two network primitives never raise.  For every target path and
\* every outcome of the request and of the file write, download_file returns
\* True or False, True exactly when the GET succeeded and the body was written
\* to the given path, False on every transport or status error; for every
\* HEAD answer get_file_size_mb returns a size or None.
C12_PrimitivesNeverRaise ==
    /\ call.fn = "download_file" =>
          /\ call.out.raised = "none"
          /\ call.out.ret \in {"True", "False"}
          /\ call.out.ret = "True" <=>
                (call.in.request = "ok" /\ call.in.write = "ok")
          /\ call.out.ret = "True" => call.out.written = <<call.in.file_path>>
          /\ call.in.request # "ok" => call.out.ret = "False"
    /\ call.fn = "get_file_size_mb" =>
          /\ Len(call.out) <= 1
          /\ call.out = <<>> <=> (~call.in.ok \/ call.in.header = "text")

C14_TempDirHandedOver ==
    /\ ops["mkdtemp"] <= 1
    /\ result.temp_dir => ops["mkdtemp"] = 1
    /\ (pc \in {"done", "failed"} /\ ops["mkdtemp"] = 1) =>
          /\ pc = "done"
          /\ result.temp_dir
          /\ payload.data = result

\* C15: resolving a short link issues one redirect-following HEAD first and a
\* GET only in the step that takes the HEAD's answer without resolving (the
\* HEAD failed), at most one of each; the canonical pattern is applied to the
\* final URL, so a short link redirecting to r/test/comments/xyz resolves to
\* that post; a reference that is no short link issues no HEAD and no GET.
C15_HeadThenGet ==
    /\ [] /\ ops["head"] <= 1 /\ ops["get"] <= 1
          /\ ops["get"] = 1 => ops["head"] = 1
          /\ ~url.short => (ops["head"] = 0 /\ ops["get"] = 0)
          /\ (url.short /\ pc # "start") => ops["head"] = 1
          /\ pc = "awaitGet" => (json_url = <<>> /\ failure = "none")
          /\ ops["cacheLookup"] = 1 => (url.std /\ json_url = <<url.ep>>)
          /\ ( /\ url.short /\ url.std
               /\ pc \notin {"start", "awaitHead", "awaitGet"}
               /\ raised # "match_reddit" ) =>
                json_url = <<"r/test/comments/xyz">>
    /\ [][ /\ ops'["head"] # ops["head"] => pc = "start"
           /\ ops'["get"] # ops["get"] => (pc = "awaitHead" /\ pc' = "awaitGet")
           /\ (pc = "awaitHead" /\ pc' # "awaitGet") =>
                 (ops'["get"] = 0 /\ pc' \in {"awaitCache", "failed"})
           /\ ~url.short => (pc = "start" => pc' \in {"awaitCache", "failed"}) ]_vars

\* C15 witness: a short link whose HEAD failed and whose GET succeeded was
\* resolved to r/test/comments/xyz and the run went on to its end.
C15_Witness ==
    /\ url.short
    /\ ops["head"] = 1 /\ ops["get"] = 1
    /\ json_url = <<"r/test/comments/xyz">>
    /\ pc = "done"

\* C16: the Video/DASH extractor runs the muxer at most once, in the step that
\* joins the two downloads and never while one is pending, and exactly when an
\* audio stream was found and both downloads succeeded; when a download failed
\* the extraction fails with no mux, and without an audio stream there is no
\* mux and the artifact's file is the downloaded video file.
C16_MuxAfterJoin ==
    /\ [] /\ ops["mux"] <= 1
          /\ ops["mux"] = 1 =>
                (audio_link # <<>> /\ dl.video = "ok" /\ dl.audio = "ok")
          /\ pc = "awaitDownloads" => ops["mux"] = 0
          /\ (Len(best_video) = 1 /\ pc \in {"done", "failed", "raised"}) =>
                /\ ops["mux"] = 1 <=>
                      (audio_link # <<>> /\ dl.video = "ok" /\ dl.audio = "ok")
                /\ (dl.video = "failed" \/ dl.audio = "failed") =>
                      /\ pc = "failed"
                      /\ failure = "DownloadFailure"
                      /\ result = EmptyResult
                      /\ ops["mux"] = 0
                /\ (audio_link = <<>> /\ dl.video = "ok") =>
                      /\ pc = "done"
                      /\ result = VideoFile
                      /\ ops["mux"] = 0
                /\ result = MuxedFile => ops["mux"] = 1
    /\ [][ ops'["mux"] # ops["mux"] =>
              /\ pc = "awaitDownloads"
              /\ dl.video = "ok" /\ dl.audio = "ok"
              /\ dl' = dl ]_vars

\* C16 witness: an audio stream was found, both downloads succeeded, the
\* muxer ran once and the artifact is the muxed file.
C16_Witness ==
    /\ pc = "done"
    /\ audio_link # <<>>
    /\ dl.video = "ok" /\ dl.audio = "ok"
    /\ ops["mux"] = 1
    /\ result = MuxedFile

\* C17: a probed DASH representation is admitted exactly when its content
\* length is at most 45 * 1024 * 1024 bytes: the rounding of the size to one
\* decimal neither admits a byte count over the cap nor excludes one within it.
C17_RoundingKeepsCap ==
    \A i \in 1..Len(probes) :
       probes[i].state = "ok" =>
          ((\E k \in 1..Len(VideoLinks(probes)) :
                VideoLinks(probes)[k].doc = probes[i].doc)
           <=> (IF probes[i].header = "integer" THEN probes[i].size_bytes ELSE 0)
                  <= CapBytes)

\* The downloads of run r that are being written.
Writing(r) == {k \in 1..Len(runs[r].tasks) : runs[r].tasks[k].state = "writing"}

\* C18: no two downloads running at the same time write the same file.  The
\* downloads one run launches have pairwise distinct targets, a gallery item's
\* being media_<position of the item in the item list>, the video's and the
\* audio's differing; two runs at the same time, for the same post, have
\* different temporary directories and no file in common.
C18_DistinctPaths ==
    /\ \A r \in Runs : \A k, l \in 1..Len(runs[r].tasks) :
          k # l => runs[r].tasks[k].file # runs[r].tasks[l].file
    /\ \A r \in Runs : \A k \in 1..Len(runs[r].tasks) :
          /\ runs[r].tasks[k].file[1] = runs[r].temp_dir
          /\ job.kind = "gallery" =>
                \E i \in 1..Len(job.items) :
                   /\ job.items[i] \notin Skipped
                   /\ runs[r].tasks[k].file[2] = Path("media", i - 1, ItemExt(job.items[i]))
                   /\ Cardinality({m \in 1..i : job.items[m] \notin Skipped}) = k
          /\ job.kind = "video" =>
                runs[r].tasks[k].file[2] = Path(IF k = 1 THEN "video" ELSE "audio", 0, ".mp4")
    /\ \A r, q \in Runs :
          (r # q /\ runs[r].stage # "idle" /\ runs[q].stage # "idle") =>
             /\ runs[r].temp_dir # runs[q].temp_dir
             /\ \A k \in 1..Len(runs[r].tasks), l \in 1..Len(runs[q].tasks) :
                   runs[r].tasks[k].file # runs[q].tasks[l].file
    /\ \A r \in Runs : runs[r].stage # "idle" => runs[r].temp_dir \in fs

\* C18 witness: both runs are downloading the same gallery, two items of the
\* same kind each, all four downloads being written.
C18_Witness ==
    /\ job.kind = "gallery"
    /\ Len(job.items) = 2 /\ job.items[1] = job.items[2]
    /\ \A r \in Runs : runs[r].stage = "downloading" /\ Cardinality(Writing(r)) = 2

\* C19: for a manifest with an audio adaptation group, extract_audio_link
\* returns the BaseURL of the representation with the highest bandwidth of the
\* group, never that of a representation while one of higher bandwidth
\* exists, and it returns None only when there is no audio stream to return:
\* the group is absent (or none of its representations has a BaseURL).
C19_HighestBandwidthAudio ==
    call.fn = "extract_audio_link" =>
        LET grp == call.in
            out == call.out
        IN  /\ ~grp.present => out = <<>>
            /\ (\E j \in 1..Len(grp.reps) : grp.reps[j].has_base) => out # <<>>
            /\ out # <<>> =>
                  /\ out[1] \in 1..Len(grp.reps)
                  /\ grp.reps[out[1]].has_base
                  /\ \A j \in 1..Len(grp.reps) :
                        grp.reps[j].bandwidth <= grp.reps[out[1]].bandwidth

\* C20: for an image post whose URL ends in .gif the Image extractor downloads
\* an MP4 whenever the preview offers one, the fallback URL of the video
\* preview if it has one and otherwise the first MP4 variant of the preview
\* images, and the artifact is then image.mp4 of file type mp4; it downloads
\* the GIF itself, file type gif, only when neither yields an MP4 URL.
C20_GifPrefersMp4 ==
    \A k \in 1..Len(image) :
       LET in == image[k].input
           pv == in.preview
           plan == image[k].plan
           from_field == pv.present /\ pv.rvp = "with_fallback"
           from_variant == pv.present /\ pv.variant_mp4
       IN  in.url = "gif" =>
              /\ from_field =>
                    plan = [src |-> "fallback_url", ext |-> ".mp4", file_type |-> "mp4"]
              /\ (~from_field /\ from_variant) =>
                    plan = [src |-> "variant_mp4", ext |-> ".mp4", file_type |-> "mp4"]
              /\ (~from_field /\ ~from_variant) =>
                    plan = [src |-> "url", ext |-> ".gif", file_type |-> "gif"]
              /\ pc = "done" =>
                    result = MediaResult("image", <<Path("image", 0, plan.ext)>>,
                                         plan.file_type)

\* Whether every key of the path resolves and leads to a URL.
Yields(keys, path) == path.depth = Len(keys) /\ path.value = "url"

\* C21: the manifest URL of a fetched post is the value at the direct
\* video-metadata path when that path yields one, otherwise the value at the
\* same path in the first cross-post parent, and none when a key of either
\* path does not resolve, which is no error.  A Video post without a manifest
\* URL fails with MissingManifestURL before any manifest fetch, size probe,
\* download or creation of a temporary directory.
C21_ManifestUrlLookup ==
    /\ post.raw = "valid" =>
          /\ post.dash_url =
                (IF Yields(DirectKeys, post.dash_direct) THEN <<"direct">>
                 ELSE IF Yields(CrossKeys, post.dash_cross) THEN <<"crosspost">>
                 ELSE <<>>)
          /\ raised \notin {"find_dash_url", "fetch_reddit_json_data"}
          /\ failure \notin {"InvalidStructure", "ValidationError"}
    /\ (variant = "Video" /\ post.dash_url = <<>> /\ pc # "dispatch") =>
          /\ failure = "MissingManifestURL"
          /\ pc = "failed"
          /\ result = EmptyResult
          /\ \A o \in {"manifestFetch", "probe", "download", "mux", "mkdtemp"} :
                ops[o] = 0
    /\ failure = "MissingManifestURL" => (variant = "Video" /\ post.dash_url = <<>>)
    /\ ops["manifestFetch"] > 0 => (variant = "Video" /\ post.dash_url # <<>>)

\* C21 witness: a video post whose direct path breaks at its second key and
\* whose first cross-post parent holds the URL had its manifest fetched from
\* the cross-post URL and ended in Done.
C21_Witness ==
    /\ variant = "Video"
    /\ post.dash_direct = [depth |-> 1, value |-> "empty"]
    /\ post.dash_url = <<"crosspost">>
    /\ ops["manifestFetch"] = 1
    /\ pc = "done"

\* C22: a fetched post whose removed_by_category is 'deleted' is rejected
\* before the manifest URL lookup, validation and classification: no extractor
\* is called, nothing is probed, downloaded or muxed, no temporary directory
\* is created, and the payload is a status error with the 'post was deleted'
\* message, not the generic one.
C22_DeletedPostRejected ==
    /\ post.raw = "deleted" =>
          /\ failure = "Deleted"
          /\ pc = "failed"
          /\ variant = "none"
          /\ post.dash_url = <<>>
          /\ \A o \in {"manifestFetch", "metaFetch", "probe", "download", "mux",
                       "mkdtemp"} \cup Extractors : ops[o] = 0
          /\ result = DeletedResult
          /\ payload = [status |-> "error", message |-> "deleted", data |-> EmptyResult]
    /\ (failure = "Deleted" \/ payload.message = "deleted") => post.raw = "deleted"

\* C22 witness: a deleted video post that still holds a manifest URL ended in
\* Failed with the 'post was deleted' message.
C22_Witness ==
    /\ post.raw = "deleted"
    /\ post.is_video /\ Yields(DirectKeys, post.dash_direct)
    /\ pc = "failed"
    /\ payload.message = "deleted"

\* C23: a run only reads the dedupe cache.  No step of any run changes the
\* cache, so after any sequence of runs, successful or failed, it holds what
\* it held before; a finished run was answered by the lookup exactly when its
\* endpoint is a stored record, and every other run that resolved an endpoint
\* started the post fetch again, also when an earlier run for the same post
\* succeeded.
C23_CacheReadOnly ==
    /\ [][cache' = cache]_vars
    /\ [](\A k \in 1..Len(log) :
            log[k].ep # <<>> =>
               /\ log[k].hit <=> log[k].ep[1] \in cache
               /\ ~log[k].hit => log[k].fetched = 1)
    /\ []((pc \in {"done", "failed", "raised"} /\ json_url # <<>>) =>
            /\ ops["cacheLookup"] = 1
            /\ ops["postFetch"] = (IF json_url[1] \in cache THEN 0 ELSE 1))

\* C23 witness: a first run for the post was not a cache hit and ended in
\* Done, then a failed run followed, and the third run for the same post
\* still missed the cache, fetched the post again and ended in Done.
C23_Witness ==
    /\ Len(log) = 2
    /\ log[1].ep = <<Requested>> /\ ~log[1].hit /\ log[1].status = "done"
    /\ log[2].status = "failed"
    /\ json_url = <<Requested>>
    /\ Requested \notin cache
    /\ ops["postFetch"] = 1
    /\ pc = "done"

====
